---- MODULE Spec2Model ----
(***************************************************************************)
(* Model of terracotta's /rgba tile handler (handlers/rgba.py): argument   *)
(* validation, the scoped driver connection, the four concurrent band      *)
(* retrievals, per-band stretch-range resolution, quantization, stacking   *)
(* and encoding.  The handler is one sequential process (variable pc);     *)
(* every retrieval future is a task that completes at a time of its own.   *)
(* The same request is executed twice in a row against the same driver     *)
(* data, so that two executions can be compared.                           *)
(***************************************************************************)
EXTENDS Integers, Sequences, FiniteSets, TLC

(***************************************************************************)
(* Bounds of the model.                                                    *)
(***************************************************************************)
\* pixels of one tile
NPix == 2
\* some_keys has 0..MaxSomeKeys elements
MaxSomeKeys == 2
\* rgba_values / stretch_ranges of a wrong length have NBands - 1 or
\* NBands + MaxExtra elements
MaxExtra == 1

(***************************************************************************)
(* Program constants.                                                      *)
(***************************************************************************)
\* the handler wants exactly 4 band selectors and 4 stretch ranges
NBands == 4
\* uint8 channel maximum
MaxChannel == 255

Bands == 1..NBands
Pixels == 1..NPix

(***************************************************************************)
(* Stretch bounds: Python's None, a number, or a percentile string "p<n>". *)
(***************************************************************************)
NoneBound == [t |-> "none", v |-> 0]
Abs(n) == [t |-> "abs", v |-> n]
Pct(p) == [t |-> "pct", v |-> p]
\* a stretch range that is None (or any falsy value) in the list
NoRange == << >>

(***************************************************************************)
(* The driver's catalog: the data every execution reads.                   *)
(*   b1, b2  datasets with metadata and a readable tile                    *)
(*   b3      dataset with metadata whose tile cannot be read               *)
(*   b4      no such dataset                                               *)
(*   b5      dataset whose tile comes with one pixel more than asked for   *)
(***************************************************************************)
BandKeys == {"b1", "b2", "b3", "b4", "b5"}

\* driver.key_names
KeyNames == <<"scene", "band">>

BandOf(keys) == keys[Len(keys)]

\* driver.get_metadata(keys) raises for a dataset the catalog does not have
InCatalog(keys) == BandOf(keys) # "b4"

\* the retrieval task of xyz.get_tile_data ends with an exception
TileFails(keys) == BandOf(keys) \in {"b3", "b4"}

\* the exception of a failing retrieval task: the dataset is not there, or
\* its tile cannot be read
TaskError(keys) == IF InCatalog(keys) THEN "RetrievalError" ELSE "DatasetNotFoundError"

\* driver.get_metadata(keys): "range" and "percentiles" (may be missing)
Metadata(keys) ==
    IF BandOf(keys) = "b2"
    THEN [range |-> <<1, 3>>, percentiles |-> [q \in {} |-> 0]]
    ELSE [range |-> <<0, 4>>, percentiles |-> [q \in {50} |-> 2]]

\* the tile of a dataset: per pixel a value and its validity (TRUE = valid)
Tile(keys) ==
    IF BandOf(keys) = "b2"
    THEN [p \in Pixels |-> [v |-> IF p = 1 THEN 1 ELSE 3, valid |-> p # 1]]
    ELSE IF BandOf(keys) = "b5"
    THEN [p \in 1..(NPix + 1) |-> [v |-> IF p = 1 THEN 2 ELSE 4, valid |-> TRUE]]
    ELSE [p \in Pixels |-> [v |-> IF p = 1 THEN 2 ELSE 4, valid |-> TRUE]]

(***************************************************************************)
(* image.get_stretch_scale(scale, percentiles): a number is used as it is, *)
(* a percentile is looked up in the table; a percentile the table does not *)
(* have is an error.                                                       *)
(***************************************************************************)
get_stretch_scale(scale, percentiles) ==
    IF scale.t = "abs"
    THEN [ok |-> TRUE, val |-> scale.v]
    ELSE IF scale.v \in DOMAIN percentiles
         THEN [ok |-> TRUE, val |-> percentiles[scale.v]]
         ELSE [ok |-> FALSE, val |-> 0]

(***************************************************************************)
(* Lines 91-99: the stretch range of one band, from the metadata range and *)
(* the band's override.  ok is FALSE when get_stretch_scale raises.        *)
(***************************************************************************)
\* faulty variant: scale_min written to index 1 and scale_max to index 0
SwappedStretchRange(md, override) ==
    LET lo == IF override[1].t = "none" THEN [ok |-> TRUE, val |-> md.range[2]]
              ELSE get_stretch_scale(override[1], md.percentiles)
        hi == IF override[2].t = "none" THEN [ok |-> TRUE, val |-> md.range[1]]
              ELSE get_stretch_scale(override[2], md.percentiles)
    IN  [ok |-> lo.ok /\ hi.ok, range |-> <<hi.val, lo.val>>]

BandStretchRange(md, override) ==
    LET lo == IF override[1].t = "none" THEN [ok |-> TRUE, val |-> md.range[1]]
              ELSE get_stretch_scale(override[1], md.percentiles)
        hi == IF override[2].t = "none" THEN [ok |-> TRUE, val |-> md.range[2]]
              ELSE get_stretch_scale(override[2], md.percentiles)
    IN  [ok |-> lo.ok /\ hi.ok, range |-> <<lo.val, hi.val>>]

\* faulty variant: no range is rejected
NeverRejected(range) == FALSE

\* line 101: the range the handler rejects
RangeRejected(range) == range[2] < range[1]

(***************************************************************************)
(* image.to_uint8(data, lower, upper): linear remap onto 0..255, clipped,  *)
(* rounded to the nearest integer (ties to even, as numpy.rint), the mask  *)
(* carried forward.  With upper = lower the division is by zero: values    *)
(* above and below become +inf and -inf and are clipped, a value equal to  *)
(* the bound becomes NaN, whose cast to uint8 is whatever the build does   *)
(* (nan).                                                                  *)
(***************************************************************************)
RoundHalfEven(num, den) ==
    LET q == num \div den
        r == num % den
    IN  IF 2 * r < den THEN q
        ELSE IF 2 * r > den THEN q + 1
        ELSE IF q % 2 = 0 THEN q ELSE q + 1

QuantizeValue(v, lo, hi, nan) ==
    IF hi = lo
    THEN IF v > lo THEN MaxChannel ELSE IF v < lo THEN 0 ELSE nan
    ELSE LET den == IF hi > lo THEN hi - lo ELSE lo - hi
             num == IF hi > lo THEN (v - lo) * MaxChannel ELSE (lo - v) * MaxChannel
         IN  IF num <= 0 THEN 0
             ELSE IF num >= MaxChannel * den THEN MaxChannel
             ELSE RoundHalfEven(num, den)

to_uint8(data, lo, hi, nan) ==
    [p \in DOMAIN data |->
        [v |-> QuantizeValue(data[p].v, lo, hi, nan), valid |-> data[p].valid]]

(***************************************************************************)
(* Line 109, np.ma.stack(out_arrays, axis=-1): per pixel the four channel  *)
(* values and the four channel masks, in the order of out_arrays.          *)
(***************************************************************************)
\* np.ma.stack raises ValueError unless all arrays have the same shape
SameShape(arrays) ==
    \A c \in 1..Len(arrays) : DOMAIN arrays[c].px = DOMAIN arrays[1].px

Stack(arrays) ==
    [p \in DOMAIN arrays[1].px |->
        [data |-> [c \in Bands |-> arrays[c].px[p].v],
         valid |-> [c \in Bands |-> arrays[c].px[p].valid]]]

(***************************************************************************)
(* image.array_to_png(out), the encoder: a bitmap of one 8-bit value per   *)
(* component, four bytes (R, G, B, A) per pixel in pixel order.  The       *)
(* encoder has no rule of its own that combines the masks of the channels: *)
(* a masked component is written as 0, any other as its quantized value.   *)
(***************************************************************************)
PixelBytes(px) ==
    [c \in Bands |-> IF px.valid[c] THEN px.data[c] ELSE 0]

array_to_png(img) ==
    [n \in 1..(NBands * Cardinality(DOMAIN img)) |->
        PixelBytes(img[((n - 1) \div NBands) + 1])[((n - 1) % NBands) + 1]]

(***************************************************************************)
(* The requests: the arguments of rgba().                                  *)
(***************************************************************************)
BoundSpecs == {NoneBound, Abs(1), Abs(3), Pct(50)}
Overrides == {NoRange} \cup {<<lo, hi>> : lo \in BoundSpecs, hi \in BoundSpecs}

\* stretch_ranges: None (given = FALSE) or a list of ranges
NoStretch == [given |-> FALSE, val |-> << >>]
NoneRanges(n) == [given |-> TRUE, val |-> [j \in 1..n |-> NoRange]]
OneOverride(pos, ov) ==
    [given |-> TRUE, val |-> [j \in Bands |-> IF j = pos THEN ov ELSE NoRange]]

WrongLengths == {NBands - 1} \cup ((NBands + 1)..(NBands + MaxExtra))

KeySeqs == UNION {[1..n -> {"s"}] : n \in 0..MaxSomeKeys}
GoodKeys == [j \in 1..(Len(KeyNames) - 1) |-> "s"]

\* every choice of four bands, and the lists of a wrong length
AllBands == [Bands -> BandKeys]
ShortOrLongBands == {[j \in 1..n |-> "b1"] : n \in WrongLengths}
                        \cup [1..(NBands - 1) -> {"b1", "b3"}]
\* four bands of which at most one is not b1
NearlyDefaultBands ==
    {[j \in Bands |-> IF j = pos THEN k ELSE "b1"] : pos \in Bands, k \in BandKeys}

\* any bands, any key count, no overrides or a list of a wrong length
ShapeRequests ==
    [some_keys : KeySeqs,
     rgba_values : AllBands \cup ShortOrLongBands,
     stretch_ranges : {NoStretch} \cup {NoneRanges(n) : n \in WrongLengths}]

\* one band with any override, any band possibly failing
StretchRequests ==
    [some_keys : {GoodKeys},
     rgba_values : NearlyDefaultBands,
     stretch_ranges : {NoneRanges(NBands)}
                        \cup {OneOverride(pos, ov) : pos \in Bands, ov \in Overrides}]

Requests == ShapeRequests \cup StretchRequests

\* what the cast of NaN to uint8 gives on the build
NanCasts == {0, MaxChannel}

(***************************************************************************)
(* State.                                                                  *)
(***************************************************************************)
VARIABLES
    some_keys,          \* argument
    rgba_values,        \* argument
    stretch_ranges,     \* argument
    nan_cast,           \* the build's cast of NaN to uint8
    pc,                 \* the handler's position
    stretch_ranges_,    \* line 44
    futures,            \* line 80: per band the retrieval task
    i,                  \* the band of the loop (line 85), the future being issued
    metadata,           \* line 89
    band_stretch_range, \* line 91
    out_arrays,         \* line 83
    out,                \* line 109
    conn_open,          \* the driver connection is held
    n_connect,          \* connections acquired by this execution
    n_release,          \* connections released by this execution
    n_metadata,         \* get_metadata calls of this execution
    error,              \* the exception raised to the caller
    output,             \* the PNG returned to the caller
    first_error,        \* the failure that happened first in time, in any thread
    out_of_order,       \* a task has ended while a task issued before it was running
    run,                \* 1: first execution of the request, 2: its repetition
    prev,               \* what the first execution returned
    query,              \* the query of the HTTP request, when the server made the call
    n_result,           \* per future, the calls of result() on it
    failed_from,        \* the stages in which a request served so far has failed
    \* profile.py, the trace wrapper of the handler
    xray_profile,       \* settings.XRAY_PROFILE
    begin_raises,       \* the recorder has no open segment: begin_subsegment raises
    recorder,           \* the calls made on xray_recorder, in order
    t_state,            \* the wrapper's position
    \* scripts/optimize_rasters.py
    o_pc,               \* the command's position
    inputs,             \* the input files (raster_files, flattened)
    overwrite,          \* --overwrite
    in_memory_option,   \* --in-memory / --no-in-memory as given: "None" when neither is
    in_memory,          \* the parameter in_memory, assigned at line 118
    folder,             \* the files of the output folder
    raster_files_flat,  \* line 82
    file_no,            \* the position of input_file in raster_files_flat
    processed           \* per optimized raster: the file and how it was processed

vars == <<some_keys, rgba_values, stretch_ranges, nan_cast, pc, stretch_ranges_,
          futures, i, metadata, band_stretch_range, out_arrays, out, conn_open,
          n_connect, n_release, n_metadata, error, output, first_error, out_of_order,
          run, prev, query, n_result, failed_from, xray_profile, begin_raises, recorder, t_state,
          o_pc, inputs, overwrite, in_memory_option, in_memory, folder, raster_files_flat,
          file_no, processed>>

\* what the caller sent, and the build
request == <<some_keys, rgba_values, stretch_ranges, nan_cast, query>>

\* the variables of the trace wrapper and of optimize-rasters
tvars == <<xray_profile, begin_raises, recorder, t_state>>
ovars == <<o_pc, inputs, overwrite, in_memory_option, in_memory, folder, raster_files_flat, file_no, processed>>

\* the handler is called directly, without the server
NoQuery == [path |-> << >>]

\* the handler is called without its trace wrapper
TraceOff ==
    /\ xray_profile = FALSE
    /\ begin_raises = FALSE
    /\ recorder = << >>
    /\ t_state = "off"

\* optimize-rasters is not running
OptIdle ==
    /\ o_pc = "idle"
    /\ inputs = {}
    /\ overwrite = FALSE
    /\ in_memory_option = "None"
    /\ in_memory = "None"
    /\ folder = {}
    /\ raster_files_flat = << >>
    /\ file_no = 0
    /\ processed = << >>

NoError == [type |-> "none", what |-> "none", band |-> 0]
Err(type, what, band) == [type |-> type, what |-> what, band |-> band]
NoOutput == << >>
NoMetadata == [range |-> <<0, 0>>, percentiles |-> [q \in {} |-> 0]]
NoFuture == [state |-> "none", keys |-> << >>]
NoResult == [error |-> NoError, output |-> NoOutput, out_of_order |-> FALSE]

\* the handler's locals at entry
Entry ==
    /\ pc = "check_stretch"
    /\ stretch_ranges_ = << >>
    /\ futures = [j \in Bands |-> NoFuture]
    /\ i = 0
    /\ metadata = NoMetadata
    /\ band_stretch_range = <<0, 0>>
    /\ out_arrays = << >>
    /\ out = << >>
    /\ conn_open = FALSE
    /\ n_connect = 0
    /\ n_release = 0
    /\ n_metadata = 0
    /\ error = NoError
    /\ output = NoOutput
    /\ first_error = NoError
    /\ out_of_order = FALSE
    /\ n_result = [j \in Bands |-> 0]

Init ==
    /\ \E r \in Requests :
          /\ some_keys = r.some_keys
          /\ rgba_values = r.rgba_values
          /\ stretch_ranges = r.stretch_ranges
    /\ nan_cast \in NanCasts
    /\ run = 1
    /\ prev = NoResult
    /\ query = NoQuery
    /\ failed_from = {}
    /\ Entry
    /\ TraceOff
    /\ OptIdle

(***************************************************************************)
(* Line 62, "with driver.connect():" the connection is released when the   *)
(* block is left, by its end or by an exception.                           *)
(***************************************************************************)
\* faulty variant: the connection is closed at the end of the block only
LeakOnRaise(raised) ==
    IF raised THEN [open |-> conn_open, released |-> n_release]
    ELSE [open |-> FALSE, released |-> n_release + 1]

WithExit(raised) == [open |-> FALSE, released |-> n_release + 1]

\* the stage of the request at each position of the handler, numbered in the
\* order Validating, Fetching, Resolving, Quantizing, Compositing, Encoding,
\* Done; Failed is last
Stage ==
    CASE pc \in {"check_stretch", "check_rgba", "connect", "check_keys"} -> 1
      [] pc = "issue" -> 2
      [] pc \in {"metadata", "resolve"} -> 3
      [] pc = "result" -> 4
      [] pc \in {"exit_with", "stack"} -> 5
      [] pc = "encode" -> 6
      [] pc = "done" -> 7
      [] pc = "failed" -> 8

\* faulty variant: the failure that happened first in time is raised instead
RaiseFirstInTime(e, inWith) ==
    /\ pc' = "failed"
    /\ error' = IF first_error = NoError THEN e ELSE first_error
    /\ first_error' = IF first_error = NoError THEN e ELSE first_error
    /\ failed_from' = failed_from \cup {Stage}
    /\ conn_open' = IF inWith THEN WithExit(TRUE).open ELSE conn_open
    /\ n_release' = IF inWith THEN WithExit(TRUE).released ELSE n_release

\* faulty variant: the exception is recorded and the handler goes on
LogAndGoOn(e, inWith) ==
    /\ pc' = pc
    /\ error' = e
    /\ first_error' = IF first_error = NoError THEN e ELSE first_error
    /\ failed_from' = failed_from \cup {Stage}
    /\ UNCHANGED <<conn_open, n_release>>

\* an exception leaves the handler: from inside the with block (inWith) the
\* connection is released on the way out
Raise(e, inWith) ==
    /\ pc' = "failed"
    /\ error' = e
    /\ first_error' = IF first_error = NoError THEN e ELSE first_error
    /\ failed_from' = failed_from \cup {Stage}
    /\ conn_open' = IF inWith THEN WithExit(TRUE).open ELSE conn_open
    /\ n_release' = IF inWith THEN WithExit(TRUE).released ELSE n_release

Continue(next) ==
    /\ pc' = next
    /\ UNCHANGED <<error, first_error, failed_from, conn_open, n_release>>

(***************************************************************************)
(* Line 81, zip(rgba_values, stretch_ranges_, futures): band j goes with   *)
(* the j-th override and the j-th future.                                  *)
(***************************************************************************)
\* faulty variant: the futures are taken in reverse
ReversedFutures(j) ==
    [band_key |-> rgba_values[j], override |-> stretch_ranges_[j],
     future |-> NBands + 1 - j]

\* faulty variant: the result is taken from whichever task has ended (as with
\* as_completed), not from the band's own
FirstCompleted(j) ==
    [band_key |-> rgba_values[j], override |-> stretch_ranges_[j],
     future |-> IF \E k \in Bands : futures[k].state = "ok"
                THEN CHOOSE k \in Bands : futures[k].state = "ok"
                                          /\ \A l \in 1..(k - 1) : futures[l].state # "ok"
                ELSE j]

BandItems(j) ==
    [band_key |-> rgba_values[j], override |-> stretch_ranges_[j], future |-> j]

(***************************************************************************)
(* The handler, lines 36-110.                                              *)
(***************************************************************************)
\* lines 36-46
CheckStretchRanges ==
    /\ pc = "check_stretch"
    /\ LET given == IF stretch_ranges.given THEN stretch_ranges.val
                    ELSE [j \in Bands |-> NoRange]
       IN  IF Len(given) # NBands
           THEN /\ Raise(Err("InvalidArgumentsError", "stretch_count", 0), FALSE)
                /\ UNCHANGED stretch_ranges_
           ELSE /\ stretch_ranges_' = [j \in Bands |->
                        IF Len(given[j]) = 0 THEN <<NoneBound, NoneBound>> ELSE given[j]]
                /\ Continue("check_rgba")
    /\ UNCHANGED <<request, tvars, ovars, n_result, futures, i, metadata, band_stretch_range, out_arrays, out,
                   n_connect, n_metadata, output, run, prev,
                   out_of_order>>

\* faulty variant: only too few bands are rejected
TooFewBands(n) == n < NBands

\* line 48
BandCountWrong(n) == n # NBands

\* lines 48-51
CheckRgbaValues ==
    /\ pc = "check_rgba"
    /\ IF BandCountWrong(Len(rgba_values))
       THEN Raise(Err("InvalidArgumentsError", "band_count", 0), FALSE)
       ELSE Continue("connect")
    /\ UNCHANGED <<request, tvars, ovars, n_result, stretch_ranges_, futures, i, metadata, band_stretch_range,
                   out_arrays, out, n_connect, n_metadata, output, run, prev,
                   out_of_order>>

\* lines 53-62: settings, driver, entering the with block
Connect ==
    /\ pc = "connect"
    /\ pc' = "check_keys"
    /\ conn_open' = TRUE
    /\ n_connect' = n_connect + 1
    /\ UNCHANGED <<request, tvars, ovars, n_result, failed_from, stretch_ranges_, futures, i, metadata, band_stretch_range,
                   out_arrays, out, n_release, n_metadata, error, output, first_error,
                   run, prev,
                   out_of_order>>

\* faulty variant: only too few keys are rejected
TooFewKeys(n) == n < Len(KeyNames) - 1

\* line 65
KeyCountWrong(n) == n # Len(KeyNames) - 1

\* lines 63-68
CheckKeys ==
    /\ pc = "check_keys"
    /\ IF KeyCountWrong(Len(some_keys))
       THEN Raise(Err("InvalidArgumentsError", "key_count", 0), TRUE)
       ELSE Continue("issue")
    /\ UNCHANGED <<request, tvars, ovars, n_result, stretch_ranges_, futures, i, metadata, band_stretch_range,
                   out_arrays, out, n_connect, n_metadata, output, run, prev,
                   out_of_order>>

Issued == {j \in Bands : futures[j].state # "none"}

\* faulty variant: the loop starts as soon as the first future is issued
FirstIssue(j) == j >= 1

\* line 80: the list comprehension ends with the last band of rgba_values
LastIssue(j) == j = NBands

\* lines 70-80: one call of get_band_future, for the next band of rgba_values
IssueFuture ==
    /\ pc = "issue"
    /\ LET j == Cardinality(Issued) + 1
       IN  /\ futures' = [futures EXCEPT ![j] =
                  [state |-> "running", keys |-> Append(some_keys, rgba_values[j])]]
           /\ IF LastIssue(j) THEN pc' = "metadata" /\ i' = 1
              ELSE UNCHANGED <<pc, i>>
    /\ UNCHANGED <<request, tvars, ovars, n_result, failed_from, stretch_ranges_, metadata, band_stretch_range, out_arrays,
                   out, conn_open, n_connect, n_release, n_metadata, error, output,
                   first_error, run, prev,
                   out_of_order>>

\* the retrieval task of band j ends, in its own thread, with the tile or an
\* exception
TaskComplete(j) ==
    /\ futures[j].state = "running"
    /\ IF TileFails(futures[j].keys)
       THEN /\ futures' = [futures EXCEPT ![j].state = "failed"]
            /\ first_error' = IF first_error = NoError
                              THEN Err(TaskError(futures[j].keys), "retrieval", j)
                              ELSE first_error
       ELSE /\ futures' = [futures EXCEPT ![j].state = "ok"]
            /\ UNCHANGED first_error
    /\ out_of_order' = (out_of_order \/ \E k \in 1..(j - 1) : futures[k].state = "running")
    /\ UNCHANGED <<request, tvars, ovars, n_result, failed_from, pc, stretch_ranges_, i, metadata, band_stretch_range,
                   out_arrays, out, conn_open, n_connect, n_release, n_metadata, error,
                   output, run, prev>>

\* lines 88-89
GetMetadata ==
    /\ pc = "metadata"
    /\ n_metadata' = n_metadata + 1
    /\ LET keys == Append(some_keys, BandItems(i).band_key)
       IN  IF InCatalog(keys)
           THEN /\ metadata' = Metadata(keys)
                /\ Continue("resolve")
           ELSE /\ Raise(Err("DatasetNotFoundError", "metadata", i), TRUE)
                /\ UNCHANGED metadata
    /\ UNCHANGED <<request, tvars, ovars, n_result, stretch_ranges_, futures, i, band_stretch_range, out_arrays,
                   out, n_connect, output, run, prev,
                   out_of_order>>

\* lines 91-104
ResolveRange ==
    /\ pc = "resolve"
    /\ LET r == BandStretchRange(metadata, BandItems(i).override)
       IN  IF ~r.ok
           THEN /\ Raise(Err("InvalidArgumentsError", "percentile", i), TRUE)
                /\ UNCHANGED band_stretch_range
           ELSE /\ band_stretch_range' = r.range
                /\ IF RangeRejected(r.range)
                   THEN Raise(Err("InvalidArgumentsError", "range", i), TRUE)
                   ELSE Continue("result")
    /\ UNCHANGED <<request, tvars, ovars, n_result, stretch_ranges_, futures, i, metadata, out_arrays, out,
                   n_connect, n_metadata, output, run, prev,
                   out_of_order>>

\* faulty variant: a failed task is not noticed
ExceptionSwallowed(f) == FALSE

\* line 106, Future.result(): the task's exception is raised in the handler
ResultRaises(f) == f.state = "failed"

\* faulty variant: the result is taken without waiting for the task
NonBlocking(f) == TRUE

\* faulty variant: result() returns only when the task has a tile
WaitsForTile(f) == f.state = "ok"

\* line 106, Future.result() returns or raises once the task has ended
ResultReady(f) == f.state \in {"ok", "failed"}

\* lines 106-107: result() blocks until the task has ended and raises its
\* exception; the tile is quantized and appended
Result ==
    /\ pc = "result"
    /\ LET f == futures[BandItems(i).future]
       IN  /\ ResultReady(f)
           /\ IF ResultRaises(f)
              THEN /\ Raise(Err(TaskError(f.keys), "retrieval", i), TRUE)
                   /\ UNCHANGED <<out_arrays, i>>
              ELSE /\ out_arrays' = Append(out_arrays,
                          [keys |-> f.keys,
                           range |-> band_stretch_range,
                           px |-> to_uint8(Tile(f.keys), band_stretch_range[1],
                                           band_stretch_range[2], nan_cast)])
                   /\ IF i = NBands
                      THEN Continue("exit_with") /\ UNCHANGED i
                      ELSE Continue("metadata") /\ i' = i + 1
    /\ n_result' = [n_result EXCEPT ![BandItems(i).future] = @ + 1]
    /\ UNCHANGED <<request, tvars, ovars, stretch_ranges_, futures, metadata, band_stretch_range,
                   out,
                   n_connect, n_metadata, output, run, prev,
                   out_of_order>>

\* line 62 / 108: the with block ends
ExitWith ==
    /\ pc = "exit_with"
    /\ pc' = "stack"
    /\ conn_open' = WithExit(FALSE).open
    /\ n_release' = WithExit(FALSE).released
    /\ UNCHANGED <<request, tvars, ovars, n_result, failed_from, stretch_ranges_, futures, i, metadata, band_stretch_range,
                   out_arrays, out, n_connect, n_metadata, error, output, first_error,
                   run, prev,
                   out_of_order>>

\* line 109: np.ma.stack, which raises for channels of different shapes
StackArrays ==
    /\ pc = "stack"
    /\ IF SameShape(out_arrays)
       THEN /\ out' = Stack(out_arrays)
            /\ Continue("encode")
       ELSE /\ Raise(Err("ValueError", "channel_shape", 0), FALSE)
            /\ UNCHANGED out
    /\ UNCHANGED <<request, tvars, ovars, n_result, stretch_ranges_, futures, i, metadata,
                   band_stretch_range, out_arrays, n_connect, n_metadata, output, run, prev,
                   out_of_order>>

\* line 110
Encode ==
    /\ pc = "encode"
    /\ pc' = "done"
    /\ output' = array_to_png(out)
    /\ UNCHANGED <<request, tvars, ovars, n_result, failed_from, stretch_ranges_, futures, i, metadata, band_stretch_range,
                   out_arrays, out, conn_open, n_connect, n_release, n_metadata, error,
                   first_error, run, prev,
                   out_of_order>>

\* rgba() is entered again: its locals are those of a new call
Reenter ==
    /\ pc' = "check_stretch"
    /\ stretch_ranges_' = << >>
    /\ futures' = [j \in Bands |-> NoFuture]
    /\ i' = 0
    /\ metadata' = NoMetadata
    /\ band_stretch_range' = <<0, 0>>
    /\ out_arrays' = << >>
    /\ out' = << >>
    /\ conn_open' = FALSE
    /\ n_connect' = 0
    /\ n_release' = 0
    /\ n_metadata' = 0
    /\ error' = NoError
    /\ output' = NoOutput
    /\ first_error' = NoError
    /\ out_of_order' = FALSE
    /\ n_result' = [j \in Bands |-> 0]

\* the caller sends the same request again: a second execution of rgba()
\* with the same arguments against the same catalog
Repeat ==
    /\ pc \in {"done", "failed"}
    /\ run = 1
    /\ run' = 2
    /\ prev' = [error |-> error, output |-> output, out_of_order |-> out_of_order]
    /\ Reenter
    /\ UNCHANGED <<request, tvars, ovars, failed_from>>

\* one step of the handler's thread
Handler ==
    \/ CheckStretchRanges
    \/ CheckRgbaValues
    \/ Connect
    \/ CheckKeys
    \/ IssueFuture
    \/ GetMetadata
    \/ ResolveRange
    \/ Result
    \/ ExitWith
    \/ StackArrays
    \/ Encode

\* one step of a retrieval task's thread
Tasks == \E j \in Bands : TaskComplete(j)

Next ==
    \/ Handler
    \/ Tasks
    \/ Repeat

Spec == Init /\ [][Next]_vars

(***************************************************************************)
(* server/rgba.py, _get_rgba_image: the query parameters become the        *)
(* arguments of rgba().  A query has the path segments of keys, the four   *)
(* band selectors and the four ranges; an X_range that is missing loads    *)
(* as None.                                                                *)
(***************************************************************************)
\* line 149: the segments of keys.split("/") that are not empty
RECURSIVE NonEmptySegments(_)
NonEmptySegments(path) ==
    IF Len(path) = 0 THEN << >>
    ELSE IF Head(path) = "" THEN NonEmptySegments(Tail(path))
    ELSE <<Head(path)>> \o NonEmptySegments(Tail(path))

\* faulty variant: the ranges of the blue and alpha channels are exchanged
SwappedRanges(q) ==
    [some_keys |-> NonEmptySegments(q.path),
     rgba_values |-> <<q.r, q.g, q.b, q.a>>,
     stretch_ranges |-> [given |-> TRUE,
                         val |-> <<q.r_range, q.g_range, q.a_range, q.b_range>>]]

\* lines 149-159: some_keys, rgba_values and stretch_ranges
ServerArgs(q) ==
    [some_keys |-> NonEmptySegments(q.path),
     rgba_values |-> <<q.r, q.g, q.b, q.a>>,
     stretch_ranges |-> [given |-> TRUE,
                         val |-> <<q.r_range, q.g_range, q.b_range, q.a_range>>]]

\* the ranges of a query: missing, a lower bound only, an upper bound only
QueryRanges == {NoRange, <<Abs(1), NoneBound>>, <<NoneBound, Abs(3)>>}
QueryBands == {"b1", "b2"}
QueryPaths == {<<"s">>, <<"s", "">>}

Queries ==
    [path : QueryPaths,
     r : QueryBands, g : QueryBands, b : QueryBands, a : QueryBands,
     r_range : QueryRanges, g_range : QueryRanges,
     b_range : QueryRanges, a_range : QueryRanges]

\* lines 161-167: rgba() is called with the arguments made from the query
InitServer ==
    /\ query \in Queries
    /\ failed_from = {}
    /\ some_keys = ServerArgs(query).some_keys
    /\ rgba_values = ServerArgs(query).rgba_values
    /\ stretch_ranges = ServerArgs(query).stretch_ranges
    /\ nan_cast \in NanCasts
    /\ run = 1
    /\ prev = NoResult
    /\ Entry
    /\ TraceOff
    /\ OptIdle

SpecServer == InitServer /\ [][Next]_vars

(***************************************************************************)
(* The handler under fair scheduling: its own thread keeps running, every  *)
(* retrieval task ends, and a call of the driver returns or raises (a      *)
(* handler step).                                                          *)
(***************************************************************************)
\* requests of every kind of outcome
FairRequests ==
    [some_keys : KeySeqs,
     rgba_values : NearlyDefaultBands \cup ShortOrLongBands,
     stretch_ranges : {NoStretch, OneOverride(2, <<Abs(3), Abs(1)>>),
                       OneOverride(3, <<Pct(50), NoneBound>>)}
                        \cup {NoneRanges(n) : n \in WrongLengths}]

InitFair ==
    /\ \E r \in FairRequests :
          /\ some_keys = r.some_keys
          /\ rgba_values = r.rgba_values
          /\ stretch_ranges = r.stretch_ranges
    /\ nan_cast \in NanCasts
    /\ run = 1
    /\ prev = NoResult
    /\ query = NoQuery
    /\ failed_from = {}
    /\ Entry
    /\ TraceOff
    /\ OptIdle

SpecFair ==
    /\ InitFair
    /\ [][Next]_vars
    /\ WF_vars(Handler)
    /\ \A j \in Bands : WF_vars(TaskComplete(j))

(***************************************************************************)
(* The handler serving one request after another: when a request has       *)
(* ended, the server calls rgba() for the next one.                        *)
(***************************************************************************)
MaxRequests == 4

\* a request that succeeds, and one that fails for each kind of failure the
\* handler has: a wrong band count, an inverted range of the second band, a
\* tile that cannot be read, a tile of another shape
StageRequests ==
    {[some_keys |-> GoodKeys, rgba_values |-> <<"b1", "b2", "b1", "b1">>,
      stretch_ranges |-> NoStretch],
     [some_keys |-> GoodKeys, rgba_values |-> <<"b1", "b1", "b1">>,
      stretch_ranges |-> NoStretch],
     [some_keys |-> GoodKeys, rgba_values |-> <<"b1", "b1", "b1", "b1">>,
      stretch_ranges |-> OneOverride(2, <<Abs(3), Abs(1)>>)],
     [some_keys |-> GoodKeys, rgba_values |-> <<"b1", "b1", "b3", "b1">>,
      stretch_ranges |-> NoStretch],
     [some_keys |-> GoodKeys, rgba_values |-> <<"b1", "b1", "b1", "b5">>,
      stretch_ranges |-> NoStretch]}

InitServing ==
    /\ \E r \in StageRequests :
          /\ some_keys = r.some_keys
          /\ rgba_values = r.rgba_values
          /\ stretch_ranges = r.stretch_ranges
    /\ nan_cast \in NanCasts
    /\ run = 1
    /\ prev = NoResult
    /\ query = NoQuery
    /\ failed_from = {}
    /\ Entry
    /\ TraceOff
    /\ OptIdle

\* the next request arrives after the last one has ended
NextRequest ==
    /\ pc \in {"done", "failed"}
    /\ run < MaxRequests
    /\ run' = run + 1
    /\ \E r \in StageRequests :
          /\ some_keys' = r.some_keys
          /\ rgba_values' = r.rgba_values
          /\ stretch_ranges' = r.stretch_ranges
    /\ Reenter
    /\ UNCHANGED <<nan_cast, query, prev, failed_from, tvars, ovars>>

NextServing ==
    \/ Handler
    \/ Tasks
    \/ NextRequest

SpecServing == InitServing /\ [][NextServing]_vars

(***************************************************************************)
(* scripts/optimize_rasters.py: the command optimize-rasters.  A file is   *)
(* a path (directory, stem, suffix) with what the file system has there:   *)
(* whether it is a file and, for a raster, its width and height.           *)
(***************************************************************************)
MaxFiles == 3

IN_MEMORY_THRESHOLD == 10980 * 10980

DirOrder == <<"d1", "d2">>
StemOrder == <<"a", "b">>
SuffixOrder == <<"jp2", "tif">>

Rank(order, x) == CHOOSE n \in 1..Len(order) : order[n] = x

InputPaths ==
    {[dir |-> "d1", stem |-> "a", suffix |-> "tif"],
     [dir |-> "d1", stem |-> "a", suffix |-> "jp2"],
     [dir |-> "d1", stem |-> "b", suffix |-> "tif"],
     [dir |-> "d2", stem |-> "a", suffix |-> "tif"],
     [dir |-> "d2", stem |-> "b", suffix |-> "jp2"]}

\* width and height of a raster: smaller than one block, and below, at and
\* above the threshold
RasterSizes == {<<100, 100>>, <<10980, 10979>>, <<10980, 10980>>, <<10981, 10980>>}

\* COG_PROFILE
blockxsize == 256
blockysize == 256

\* what is at a path: a raster of some size, or nothing that is a file
OnDisk == [is_file : {TRUE}, size : RasterSizes] \cup {[is_file |-> FALSE, size |-> <<0, 0>>]}

PathOf(f) == [dir |-> f.dir, stem |-> f.stem, suffix |-> f.suffix]

\* the order of pathlib paths: by directory, then by file name
PathBefore(f, g) ==
    LET kf == <<Rank(DirOrder, f.dir), Rank(StemOrder, f.stem), Rank(SuffixOrder, f.suffix)>>
        kg == <<Rank(DirOrder, g.dir), Rank(StemOrder, g.stem), Rank(SuffixOrder, g.suffix)>>
    IN  \/ kf[1] < kg[1]
        \/ kf[1] = kg[1] /\ kf[2] < kg[2]
        \/ kf[1] = kg[1] /\ kf[2] = kg[2] /\ kf[3] <= kg[3]

\* line 82: sorted(set(...))
RECURSIVE Sorted(_)
Sorted(files) ==
    IF files = {} THEN << >>
    ELSE LET first == CHOOSE f \in files : \A g \in files : PathBefore(f, g)
         IN  <<first>> \o Sorted(files \ {first})

\* line 103: output_folder / input_file.with_suffix('.tif').name
output_file(input_file) == [stem |-> input_file.stem, suffix |-> "tif"]

\* the files the output folder may have before the run
OutputNames == {[stem |-> st, suffix |-> "tif"] : st \in {"a", "b"}}

\* a file of the output folder: its name and the input it was made from
\* (<< >> for a file that was there before the run)
Older(name) == [name |-> name, from |-> << >>]
Made(name, f) == [name |-> name, from |-> <<PathOf(f)>>]

\* the output folder has a file of this name
InFolder(name) == \E e \in folder : e.name = name

\* faulty variant: only the files that were there before the run count
IsOlderFile(name) == Older(name) \in folder

\* line 105: output_file.is_file()
IsFile(name) == InFolder(name)

\* line 118
PixelCount(f) == f.size[1] * f.size[2]

InitOpt ==
    /\ \E paths \in SUBSET InputPaths :
          /\ Cardinality(paths) <= MaxFiles
          /\ \E disk \in [paths -> OnDisk] :
                inputs = {[dir |-> q.dir, stem |-> q.stem, suffix |-> q.suffix,
                           is_file |-> disk[q].is_file, size |-> disk[q].size] : q \in paths}
    /\ overwrite \in BOOLEAN
    /\ in_memory_option \in {"None", "True", "False"}
    /\ in_memory = in_memory_option
    /\ \E names \in SUBSET OutputNames : folder = {Older(n) : n \in names}
    /\ o_pc = "flatten"
    /\ raster_files_flat = << >>
    /\ file_no = 0
    /\ processed = << >>
    /\ some_keys = << >>
    /\ rgba_values = << >>
    /\ stretch_ranges = NoStretch
    /\ nan_cast = 0
    /\ run = 1
    /\ prev = NoResult
    /\ query = NoQuery
    /\ failed_from = {}
    /\ Entry
    /\ TraceOff

\* lines 82-86
Flatten ==
    /\ o_pc = "flatten"
    /\ raster_files_flat' = Sorted(inputs)
    /\ o_pc' = IF inputs = {} THEN "ended" ELSE "check_inputs"
    /\ UNCHANGED <<inputs, overwrite, in_memory_option, in_memory, folder, file_no, processed>>

\* lines 88-92
CheckInputs ==
    /\ o_pc = "check_inputs"
    /\ IF \E n \in 1..Len(raster_files_flat) : ~raster_files_flat[n].is_file
       THEN o_pc' = "aborted" /\ UNCHANGED file_no
       ELSE o_pc' = "loop" /\ file_no' = 1
    /\ UNCHANGED <<inputs, overwrite, in_memory_option, in_memory, folder, raster_files_flat,
                   processed>>

\* lines 102-108: the next input, and the check of its output file
CheckOutput ==
    /\ o_pc = "loop"
    /\ IF file_no > Len(raster_files_flat)
       THEN o_pc' = "ended"
       ELSE IF ~overwrite /\ IsFile(output_file(raster_files_flat[file_no]))
            THEN o_pc' = "aborted"
            ELSE o_pc' = "open"
    /\ UNCHANGED <<inputs, overwrite, in_memory_option, in_memory, folder, raster_files_flat,
                   file_no, processed>>

\* lines 110-118: the raster is opened; in_memory is set if it is None
Open ==
    /\ o_pc = "open"
    /\ in_memory' = IF in_memory = "None"
                    THEN IF PixelCount(raster_files_flat[file_no]) < IN_MEMORY_THRESHOLD
                         THEN "True" ELSE "False"
                    ELSE in_memory
    /\ o_pc' = "copy"
    /\ UNCHANGED <<inputs, overwrite, in_memory_option, folder, raster_files_flat, file_no,
                   processed>>

\* lines 138-141: the argument of math.log2, with dst of the size of src
OverviewBlocks(f) ==
    LET down == f.size[2] \div blockysize
        across == f.size[1] \div blockxsize
    IN  IF down > across THEN down ELSE across

\* math.ceil(math.log2(n)) for n >= 1
RECURSIVE CeilLog2(_)
CeilLog2(n) == IF n <= 1 THEN 0 ELSE 1 + CeilLog2((n + 1) \div 2)

\* lines 120-149: the raster is optimized in memory or in a temporary file
\* and copied to output_file; math.log2(0) raises ValueError for a raster
\* smaller than one block, before anything is copied
Copy ==
    /\ o_pc = "copy"
    /\ LET f == raster_files_flat[file_no]
           name == output_file(f)
       IN  IF OverviewBlocks(f) = 0
           THEN /\ o_pc' = "crashed"
                /\ UNCHANGED <<processed, folder, file_no>>
           ELSE /\ processed' = Append(processed,
                       [file |-> PathOf(f), in_mem |-> in_memory = "True",
                        pixels |-> PixelCount(f), existed |-> InFolder(name),
                        max_overview_level |-> CeilLog2(OverviewBlocks(f))])
                /\ folder' = {e \in folder : e.name # name} \cup {Made(name, f)}
                /\ file_no' = file_no + 1
                /\ o_pc' = "loop"
    /\ UNCHANGED <<inputs, overwrite, in_memory_option, in_memory, raster_files_flat>>

hvars == <<request, pc, stretch_ranges_, futures, i, metadata, band_stretch_range, out_arrays,
           out, conn_open, n_connect, n_release, n_metadata, error, output, first_error,
           out_of_order, run, prev, n_result, failed_from>>

NextOpt ==
    \/ Flatten /\ UNCHANGED <<hvars, tvars>>
    \/ CheckInputs /\ UNCHANGED <<hvars, tvars>>
    \/ CheckOutput /\ UNCHANGED <<hvars, tvars>>
    \/ Open /\ UNCHANGED <<hvars, tvars>>
    \/ Copy /\ UNCHANGED <<hvars, tvars>>

SpecOpt == InitOpt /\ [][NextOpt]_vars

(***************************************************************************)
(* profile.py, trace: the context manager that decorates rgba() (handlers/ *)
(* rgba.py line 19).  The recorder is the X-Ray SDK's: begin_subsegment    *)
(* returns, or raises when the recorder has no open segment to attach the  *)
(* subsegment to.                                                          *)
(***************************************************************************)
BeginCall(ok) == [call |-> "begin_subsegment", ok |-> ok]
EndCall == [call |-> "end_subsegment", ok |-> TRUE]

InitTrace ==
    /\ \E r \in FairRequests :
          /\ some_keys = r.some_keys
          /\ rgba_values = r.rgba_values
          /\ stretch_ranges = r.stretch_ranges
    /\ nan_cast \in NanCasts
    /\ run = 1
    /\ prev = NoResult
    /\ query = NoQuery
    /\ failed_from = {}
    /\ Entry
    /\ xray_profile \in BOOLEAN
    /\ begin_raises \in BOOLEAN
    /\ recorder = << >>
    /\ t_state = "enter"
    /\ OptIdle

\* lines 15-20 and 24: up to the yield; an exception of begin_subsegment
\* passes through the finally clause of line 21 and leaves the wrapper
\* before rgba() is called
TraceEnter ==
    /\ t_state = "enter"
    /\ IF ~xray_profile
       THEN /\ t_state' = "yielded"
            /\ UNCHANGED <<recorder, pc, error, first_error, failed_from>>
       ELSE IF begin_raises
            THEN /\ recorder' = recorder \o <<BeginCall(FALSE), EndCall>>
                 /\ t_state' = "exited"
                 /\ pc' = "failed"
                 /\ error' = Err("SegmentNotFoundException", "trace", 0)
                 /\ first_error' = error'
                 /\ failed_from' = failed_from
            ELSE /\ recorder' = Append(recorder, BeginCall(TRUE))
                 /\ t_state' = "yielded"
                 /\ UNCHANGED <<pc, error, first_error, failed_from>>
    /\ UNCHANGED <<request, ovars, xray_profile, begin_raises, stretch_ranges_, futures, i,
                   metadata, band_stretch_range, out_arrays, out, conn_open, n_connect,
                   n_release, n_metadata, output, out_of_order, run, prev, n_result>>

\* lines 21-22 and 24: rgba() has returned or raised
TraceExit ==
    /\ t_state = "yielded"
    /\ pc \in {"done", "failed"}
    /\ recorder' = IF xray_profile THEN Append(recorder, EndCall) ELSE recorder
    /\ t_state' = "exited"
    /\ UNCHANGED <<hvars, ovars, xray_profile, begin_raises>>

NextTrace ==
    \/ TraceEnter
    \/ t_state = "yielded" /\ Handler
    \/ t_state = "yielded" /\ Tasks
    \/ TraceExit

SpecTrace == InitTrace /\ [][NextTrace]_vars

(***************************************************************************)
(* Properties.                                                             *)
(***************************************************************************)
Terminal == pc \in {"done", "failed"}

\* the dataset keys of band c of the request
KeysOf(c) == Append(some_keys, rgba_values[c])

\* what the caller gave as the override of band c: None for the whole
\* argument or for the band, or the bound itself
GivenBound(c, k) ==
    IF ~stretch_ranges.given THEN NoneBound
    ELSE IF Len(stretch_ranges.val[c]) = 0 THEN NoneBound
    ELSE stretch_ranges.val[c][k]

StretchCountWrong == stretch_ranges.given /\ Len(stretch_ranges.val) # 4
ShapeErrors == {"stretch_count", "band_count", "key_count"}

\* C1: in a request that succeeds, channel c of the composited image is the
\* quantized tile of the dataset selected by the c-th element of rgba_values,
\* in whatever order the four retrieval tasks ended.
C1_ChannelOrder ==
    /\ \A c \in 1..Len(out_arrays) : out_arrays[c].keys = KeysOf(c)
    /\ pc \in {"encode", "done"} =>
          \A c \in Bands : \A p \in Pixels :
              out[p].data[c] =
                  QuantizeValue(Tile(KeysOf(c))[p].v, out_arrays[c].range[1],
                                out_arrays[c].range[2], nan_cast)

C1_Witness ==
    /\ pc = "done"
    /\ out_of_order
    /\ rgba_values = <<"b2", "b1", "b1", "b2">>
    /\ out[1].data = <<0, 128, 128, 0>>

\* C2 as stated: on every exit path the connection has been acquired exactly
\* once and released exactly once.
C2_AcquiredOnceOnEveryExit ==
    Terminal => n_connect = 1 /\ n_release = 1

\* C2 amended: on every exit path the connection has been released as often
\* as it was acquired and is not held; it was acquired once, except when the
\* stretch-range count or the band count is rejected, which happens before
\* the connection is acquired at all.
C2_ReleasedAsAcquired ==
    /\ n_release <= n_connect
    /\ n_connect <= 1
    /\ conn_open = (n_connect = 1 /\ n_release = 0)
    /\ Terminal =>
          /\ ~conn_open
          /\ n_release = n_connect
          /\ n_connect = IF error.what \in {"stretch_count", "band_count"} THEN 0 ELSE 1

C2_Witness ==
    /\ pc = "failed"
    /\ error.what = "retrieval"
    /\ n_connect = 1
    /\ n_release = 1
    /\ \E j \in Bands : futures[j].state = "running"

\* C3: a resolved range with low >= high, low = high included, fails the
\* request, and to_uint8 is never called with such a range.
C3_DegenerateRangeRejected ==
    /\ \A c \in 1..Len(out_arrays) : out_arrays[c].range[1] < out_arrays[c].range[2]
    /\ pc = "result" => band_stretch_range[1] < band_stretch_range[2]

\* C4 as stated: each of the three shape checks fails before any I/O: no
\* connection opened, no metadata read, no retrieval issued.
C4_ShapeFailsBeforeAnyIO ==
    (pc = "failed" /\ error.what \in ShapeErrors) =>
        n_connect = 0 /\ n_metadata = 0 /\ Issued = {}

\* C4 amended: a request that violates a shape check fails with
\* InvalidArgumentsError before any metadata is read or any retrieval is
\* issued.  A wrong stretch-range count or band count fails before the
\* connection is opened; a wrong key count is found with the connection
\* open, which is released by the failure.
C4_ShapeFailsBeforeRetrieval ==
    (StretchCountWrong \/ Len(rgba_values) # 4 \/ Len(some_keys) # Len(KeyNames) - 1) =>
        /\ n_metadata = 0
        /\ Issued = {}
        /\ pc # "done"
        /\ (StretchCountWrong \/ Len(rgba_values) # 4) => n_connect = 0
        /\ pc = "failed" =>
              /\ error.type = "InvalidArgumentsError"
              /\ error.what \in ShapeErrors
              /\ error.what = "key_count" => n_connect = 1 /\ n_release = 1

C4_Witness ==
    /\ pc = "failed"
    /\ error.what = "key_count"
    /\ Len(some_keys) = Len(KeyNames)
    /\ n_connect = 1
    /\ Issued = {}

\* C5 as stated: a request without exactly 4 band selectors fails with the
\* band-count error, whatever its other arguments.
C5_BandCountErrorAlways ==
    (Terminal /\ Len(rgba_values) # 4) =>
        pc = "failed" /\ error.what = "band_count" /\ Issued = {}

\* C5 amended: a request without exactly 4 band selectors fails with
\* InvalidArgumentsError and no retrieval is issued; the error is the
\* band-count error when stretch_ranges is None or has 4 elements, and the
\* stretch-range-count error otherwise, as that check comes first.
C5_BandCountError ==
    Len(rgba_values) # 4 =>
        /\ Issued = {}
        /\ pc # "done"
        /\ pc = "failed" =>
              /\ error.type = "InvalidArgumentsError"
              /\ error.what = IF StretchCountWrong THEN "stretch_count" ELSE "band_count"

C5_Witness ==
    /\ pc = "failed"
    /\ Len(rgba_values) = 3
    /\ ~stretch_ranges.given
    /\ error.what = "band_count"
    /\ Issued = {}

\* C6: when one of the four retrievals fails the request fails with an
\* error, whichever band it is and whatever the others do, and nothing is
\* stacked, encoded or returned.
C6_NoPartialImage ==
    /\ (\E j \in Bands : futures[j].state = "failed") =>
          /\ pc \notin {"exit_with", "stack", "encode", "done"}
          /\ out = << >>
          /\ output = NoOutput
    /\ (Terminal /\ \E c \in 1..Len(rgba_values) : TileFails(KeysOf(c))) =>
          /\ pc = "failed"
          /\ error # NoError
          /\ output = NoOutput
    /\ pc = "failed" => out = << >> /\ output = NoOutput

C6_Witness ==
    /\ pc = "failed"
    /\ error.what = "retrieval"
    /\ error.band = 3
    /\ Len(out_arrays) = 2
    /\ futures[4].state = "running"
    /\ output = NoOutput

\* C7 as stated: the error surfaced is the failure that happened first in
\* time.
C7_FirstInTime ==
    pc = "failed" => error.type = first_error.type /\ error.band = first_error.band

\* C7 amended: the error surfaced is the first failure in the handler's own
\* order (the shape checks, then band by band: metadata, range resolution
\* and validation, retrieval result, and after the last band the
\* compositing): every band before the failing one has been retrieved and
\* quantized without failure, and a retrieval of a later band that failed
\* earlier in time is not surfaced.
C7_FirstInBandOrder ==
    pc = "failed" =>
        /\ error # NoError
        /\ IF error.what = "channel_shape"
           THEN /\ Len(out_arrays) = NBands
                /\ ~SameShape(out_arrays)
                /\ \A c \in Bands :
                      /\ futures[c].state = "ok"
                      /\ InCatalog(KeysOf(c))
                      /\ ~(out_arrays[c].range[2] < out_arrays[c].range[1])
           ELSE /\ error.band = i
                /\ Len(out_arrays) = IF i = 0 THEN 0 ELSE i - 1
                /\ \A c \in 1..(i - 1) :
                      /\ futures[c].state = "ok"
                      /\ InCatalog(KeysOf(c))
                      /\ ~(out_arrays[c].range[2] < out_arrays[c].range[1])
                /\ error.what \in ShapeErrors <=> i = 0
                /\ error.what = "metadata" => ~InCatalog(KeysOf(i))
                /\ error.what = "range" =>
                      InCatalog(KeysOf(i)) /\ band_stretch_range[2] < band_stretch_range[1]
                /\ error.what = "retrieval" =>
                      /\ InCatalog(KeysOf(i))
                      /\ ~(band_stretch_range[2] < band_stretch_range[1])
                      /\ futures[i].state = "failed"

C7_Witness ==
    /\ pc = "failed"
    /\ error.what = "range"
    /\ error.band = 1
    /\ first_error.what = "retrieval"
    /\ first_error.band = 3

\* C8: a bound the caller left absent (the whole argument None, the band's
\* range None, or the bound None) is the bound of the dataset's metadata
\* range, also when the other bound is overridden.
C8_AbsentBoundIsDefault ==
    /\ \A c \in 1..Len(out_arrays) : \A k \in 1..2 :
          GivenBound(c, k) = NoneBound =>
              out_arrays[c].range[k] = Metadata(KeysOf(c)).range[k]
    /\ pc = "result" =>
          \A k \in 1..2 :
              GivenBound(i, k) = NoneBound =>
                  band_stretch_range[k] = Metadata(KeysOf(i)).range[k]

C8_Witness ==
    /\ pc = "result"
    /\ i = 2
    /\ stretch_ranges.given
    /\ stretch_ranges.val[2] = <<Abs(1), NoneBound>>
    /\ rgba_values[2] = "b2"
    /\ band_stretch_range = <<1, 3>>

\* C9: in the returned image every pixel that is invalid in the mask of at
\* least one of the four source tiles is transparent (alpha byte 0), whatever
\* the four quantized values of the pixel.
C9_InvalidPixelTransparent ==
    pc = "done" =>
        \A p \in Pixels :
            (\E c \in Bands : ~Tile(KeysOf(c))[p].valid) => output[NBands * p] = 0

\* C10: the repetition of a request against the same catalog returns what the
\* first execution returned, in whatever order the retrieval tasks of either
\* execution ended.
C10_SameOutput ==
    (run = 2 /\ Terminal) =>
        /\ output = prev.output
        /\ (pc = "done") = (prev.output # NoOutput)

C10_Witness ==
    /\ run = 2
    /\ pc = "done"
    /\ out_of_order
    /\ ~prev.out_of_order
    /\ rgba_values = <<"b1", "b2", "b2", "b1">>
    /\ output = prev.output
    /\ output # NoOutput

\* the range that a query's range gives on a band: each bound that is
\* missing is the bound of the band's metadata range
QueryRange(band, rng) ==
    [n \in 1..2 |->
        IF rng = NoRange \/ rng[n] = NoneBound
        THEN Metadata(<<"s", band>>).range[n]
        ELSE rng[n].v]

\* the c-th band of the loop was quantized from the dataset of the given
\* band with the given range of the query
Applied(c, band, rng) ==
    c <= Len(out_arrays) =>
        /\ out_arrays[c].keys = <<"s", band>>
        /\ out_arrays[c].range = QueryRange(band, rng)

\* C11: the override applied to a channel is the one supplied for that
\* channel: r_range goes with the band of r, g_range with g, b_range with b,
\* a_range with a, from the query to the per-band loop, and a missing
\* X_range gives the default range for channel X only.
C11_RangePairedWithChannel ==
    query # NoQuery =>
        /\ Applied(1, query.r, query.r_range)
        /\ Applied(2, query.g, query.g_range)
        /\ Applied(3, query.b, query.b_range)
        /\ Applied(4, query.a, query.a_range)

\* a served request where blue has no range and alpha has one, on
\* different bands
C11_Witness ==
    /\ query # NoQuery
    /\ pc = "done"
    /\ query.b = "b1" /\ query.a = "b2"
    /\ query.b_range = NoRange /\ query.a_range = <<Abs(1), NoneBound>>
    /\ query.r_range = <<NoneBound, Abs(3)>>
    /\ out_arrays[3].range = <<0, 4>>
    /\ out_arrays[4].range = <<1, 3>>

\* the positions of the handler inside the block of "with driver.connect()"
InsideWith == {"check_keys", "issue", "metadata", "resolve", "result", "exit_with"}

\* C12 as stated: no retrieval task is running once the connection is
\* released, on any exit path.
C12_NoTaskAfterRelease ==
    \A j \in Bands : futures[j].state = "running" => conn_open

\* the connection is held wherever the handler calls the driver or waits for
\* a task, every task has ended when the block is left by its end, and only
\* a failed request leaves tasks running behind a released connection
ConnectionHeld ==
    /\ pc \in InsideWith => conn_open
    /\ pc \in {"exit_with", "stack", "encode", "done"} =>
          \A j \in Bands : futures[j].state = "ok"
    /\ (~conn_open /\ \E j \in Bands : futures[j].state = "running") =>
          /\ pc = "failed"
          /\ error.what \in {"metadata", "percentile", "range", "retrieval"}
          /\ output = NoOutput

\* C12: get_metadata, the start of each task and each wait for a result
\* happen while the connection is held; on success all four tasks have ended
\* before the release; on failure the connection is released while sibling
\* tasks may still run, and what they do afterwards changes neither the
\* error nor the (absent) output of the failed request.
C12_HeldExceptAbandonedTasks ==
    /\ []ConnectionHeld
    /\ [][(pc = "failed" /\ pc' = "failed") =>
              (error' = error /\ output' = NoOutput)]_vars

\* an invalid range of the first band fails the request while all four
\* tasks are running
C12_Witness ==
    /\ pc = "failed"
    /\ error.what = "range"
    /\ error.band = 1
    /\ ~conn_open
    /\ n_release = 1
    /\ \A j \in Bands : futures[j].state = "running"

\* bound n of the range of band c once resolved: the given bound, a number
\* or the percentile it names, else the bound of the metadata range
ResolvedBound(c, n) ==
    LET given == GivenBound(c, n)
        md == Metadata(KeysOf(c))
    IN  IF given.t = "none" THEN md.range[n]
        ELSE IF given.t = "abs" THEN given.v
        ELSE md.percentiles[given.v]

\* the range of band c is resolved and has passed the check of line 101
RangeReady(c) ==
    /\ n_metadata = c
    /\ \A n \in 1..2 :
          /\ GivenBound(c, n).t = "pct" =>
                GivenBound(c, n).v \in DOMAIN Metadata(KeysOf(c)).percentiles
          /\ band_stretch_range[n] = ResolvedBound(c, n)
    /\ band_stretch_range[1] <= band_stretch_range[2]

\* C13: a band is quantized only once its own retrieval task has ended with
\* a tile and its own stretch range has been resolved and has passed the
\* range check; the quantization uses that range.
C13_QuantizeAfterFetchAndResolve ==
    /\ [](pc = "result" => RangeReady(i))
    /\ [][Len(out_arrays') > Len(out_arrays) =>
              LET c == Len(out_arrays')
              IN  /\ c = Len(out_arrays) + 1
                  /\ pc = "result" /\ i = c
                  /\ futures[c].state = "ok"
                  /\ futures[c].keys = KeysOf(c)
                  /\ RangeReady(c)
                  /\ out_arrays'[c].range = band_stretch_range]_vars

\* the second band is quantized with a percentile bound while the first
\* band's task ended after it
C13_Witness ==
    /\ Len(out_arrays) = 2
    /\ pc = "metadata"
    /\ GivenBound(2, 1) = Pct(50)
    /\ GivenBound(2, 2) = Abs(3)
    /\ out_arrays[2].range = <<2, 3>>
    /\ out_of_order

\* the handler has asked for metadata or for the result of a task
LoopBegun ==
    \/ n_metadata > 0
    \/ \E j \in Bands : n_result[j] > 0
    \/ pc \in {"metadata", "resolve", "result", "exit_with", "stack", "encode", "done"}

\* C14: a request that passes the checks of its arguments issues exactly
\* four retrieval tasks, the j-th for the j-th band selector, and all four
\* are issued before the first get_metadata and before the first wait for a
\* result.
C14_AllIssuedBeforeLoop ==
    /\ LoopBegun =>
          /\ Issued = Bands
          /\ \A j \in Bands : futures[j].keys = KeysOf(j)
    /\ pc = "issue" => n_metadata = 0 /\ \A j \in Bands : n_result[j] = 0
    /\ (Terminal /\ error.what \notin ShapeErrors) => Issued = Bands
    /\ (Terminal /\ error.what \in ShapeErrors) => Issued = {}

\* the four tasks are running together before the first metadata call
C14_Witness ==
    /\ pc = "metadata"
    /\ i = 1
    /\ n_metadata = 0
    /\ \A j \in Bands : futures[j].state = "running" /\ n_result[j] = 0
    /\ rgba_values = <<"b1", "b1", "b1", "b2">>

Validated ==
    /\ ~StretchCountWrong
    /\ Len(rgba_values) = NBands
    /\ Len(some_keys) = Len(KeyNames) - 1

\* the stages with a step that can fail: Validating, Resolving, Quantizing
\* and Compositing
FailingStages == {1, 3, 4, 5}

Ended ==
    \/ pc = "done" /\ output # NoOutput /\ error = NoError
    \/ pc = "failed" /\ output = NoOutput /\ error # NoError

\* C16: when every retrieval task ends and every driver call returns or
\* raises, each execution of a request ends with an image or with an error,
\* and result() is called at most once on each future.
C16_EndsAndWaitsOnce ==
    /\ ~Terminal ~> Ended
    /\ [](\A j \in Bands : n_result[j] <= 1)
    /\ [](Terminal => Ended)

\* the repeated request has ended with an image after one wait per future,
\* the tasks having ended out of band order
C16_Witness ==
    /\ run = 2
    /\ pc = "done"
    /\ \A j \in Bands : n_result[j] = 1
    /\ out_of_order

\* C17: with neither --in-memory nor --no-in-memory, every raster of a run
\* is processed in memory exactly when its own width * height is below
\* IN_MEMORY_THRESHOLD, wherever it stands in the list of inputs.
C17_InMemoryByOwnSize ==
    in_memory_option = "None" =>
        \A n \in 1..Len(processed) :
            processed[n].in_mem <=> processed[n].pixels < IN_MEMORY_THRESHOLD

\* the output of every raster optimized so far is in the output folder
OutputsInPlace ==
    \A n \in 1..Len(processed) :
        \E f \in inputs :
            /\ PathOf(f) = processed[n].file
            /\ Made(output_file(f), f) \in folder

\* C18: without --overwrite no file that exists in the output folder is
\* written, be it there from before the run or made earlier in the run
\* from an input of the same name in another directory: the run aborts at
\* the first input whose output name exists, and the outputs written before
\* stay in place.
C18_NoExistingFileWritten ==
    /\ [](~overwrite =>
             /\ \A n \in 1..Len(processed) : ~processed[n].existed
             /\ OutputsInPlace
             /\ o_pc \in {"open", "copy"} =>
                   ~InFolder(output_file(raster_files_flat[file_no]))
             /\ (o_pc = "aborted" /\ file_no >= 1) =>
                   /\ InFolder(output_file(raster_files_flat[file_no]))
                   /\ Len(processed) = file_no - 1
             /\ o_pc = "crashed" =>
                   /\ ~InFolder(output_file(raster_files_flat[file_no]))
                   /\ Len(processed) = file_no - 1
             /\ o_pc = "ended" => Len(processed) = Len(raster_files_flat))
    /\ [][~overwrite =>
             /\ folder \subseteq folder'
             /\ o_pc \in {"aborted", "crashed"} => folder' = folder]_vars

\* the run has aborted at d2/a.tif because a.tif was made from d1/a.jp2
\* before, in a folder that was empty
C18_Witness ==
    /\ ~overwrite
    /\ o_pc = "aborted"
    /\ file_no = 2
    /\ Len(processed) = 1
    /\ raster_files_flat[2].dir = "d2"
    /\ folder = {Made([stem |-> "a", suffix |-> "tif"],
                      [dir |-> "d1", stem |-> "a", suffix |-> "jp2"])}

\* the calls of the recorder so far that are begin_subsegment, and those
\* that are end_subsegment
Begins == {n \in 1..Len(recorder) : recorder[n].call = "begin_subsegment"}
Ends == {n \in 1..Len(recorder) : recorder[n].call = "end_subsegment"}

\* C19: with XRAY_PROFILE off the recorder is not called; with it on, an
\* invocation makes one begin_subsegment call and then one end_subsegment
\* call, whether the handler returns or raises, and end_subsegment is only
\* called for a subsegment that begin_subsegment has begun.
C19_OneSubsegmentPerCall ==
    /\ ~xray_profile => recorder = << >>
    /\ (xray_profile /\ t_state = "exited") =>
          /\ Cardinality(Begins) = 1
          /\ Cardinality(Ends) = 1
          /\ recorder[1].call = "begin_subsegment"
    /\ \A n \in Ends : \E m \in Begins : m < n /\ recorder[m].ok

====
